---- MODULE Spec2Model ----
(***************************************************************************)
(* Model of pages/01_외계행성.py: a Streamlit page that loads an exoplanet  *)
(* catalog through a process-wide cache, filters it by system name, draws  *)
(* an orbit map and simulates a transit light curve.                       *)
(*                                                                         *)
(* Numbers are exact decimals held as integers:                            *)
(*   planet_radius, orbital_period   in tenths      (2.0  -> 20)           *)
(*   star_brightness                 in hundredths  (1.0  -> 100)          *)
(*   orbital_radius, pl_orbsmax      in hundredths  (0.1  -> 10)           *)
(*   time samples                    in 1/TimeUnit of a tenth of a day     *)
(*   brightness samples              in 1/BrightUnit of a hundredth        *)
(* so that P/99, 0.4*P, 0.1*P and sb*(1-(r/10)^2) are all exact.           *)
(* Strings are sequences of one-character strings.                         *)
(***************************************************************************)
EXTENDS Integers, Sequences, FiniteSets, TLC

VARIABLES
    file,             \* data/exoplanets.csv: absent, unreadable or holding a table
    cache,            \* the st.cache_data entry of load_data
    reads,            \* how many times pd.read_csv was called
    planet_radius, orbital_radius, orbital_period, star_brightness,
    selected_system,  \* the sidebar widgets' values of the last run
    df, system_data,  \* the script's tables
    fig_map,          \* the traces of the orbit-map figure
    fig_stats,        \* the statistics figure, or NoFigure
    time, brightness, \* what simulate_transit returned
    notice,           \* TRUE when the st.error notice is on the page
    load_path,        \* the last run's load_data: "cached", or the state of the
                      \* file its body met
    status            \* "idle", "done" or "crashed" (uncaught exception)

vars == <<file, cache, reads, planet_radius, orbital_radius, orbital_period,
          star_brightness, selected_system, df, system_data, fig_map,
          fig_stats, time, brightness, notice, load_path, status>>

(***************************** bounds *************************************)
MaxRows == 2
MaxReads == 2

(***************************** units **************************************)
NumSamples == 100
\* one tenth of a day, divisible by NumSamples - 1 (the linspace step) and by 10
\* (the factors 0.4 and 0.1)
TimeUnit == (NumSamples - 1) * 10
\* one hundredth of brightness, divisible by 100 * 100: (planet_radius / 10) ** 2
\* of a radius in tenths is radius * radius / BrightUnit
BrightUnit == 100 * 100

\* a cell of the table: NaN when missing, Some(v) otherwise
NaN == <<>>
Some(v) == <<v>>
isna(cell) == cell = NaN
ValueOf(cell) == cell[1]

\* pd.DataFrame()
EmptyDataFrame == <<>>

NoCache == [filled |-> FALSE, value |-> EmptyDataFrame, notice |-> FALSE]
NoFigure == [shown |-> FALSE, rows |-> 0]

(***************************** strings ************************************)
UpperCase == <<"A","B","C","D","E","F","G","H","I","J","K","L","M",
               "N","O","P","Q","R","S","T","U","V","W","X","Y","Z">>
LowerCase == <<"a","b","c","d","e","f","g","h","i","j","k","l","m",
               "n","o","p","q","r","s","t","u","v","w","x","y","z">>

All == <<"A","l","l">>
TRAPPIST1 == <<"T","R","A","P","P","I","S","T","-","1">>
Kepler452 == <<"K","e","p","l","e","r","-","4","5","2">>
ProximaCentauri == <<"P","r","o","x","i","m","a"," ",
                     "C","e","n","t","a","u","r","i">>

\* the options of the selectbox
SystemOptions == {All, TRAPPIST1, Kepler452, ProximaCentauri}

\* settings of the four sliders: their defaults, their minima, their maxima
Setting(pradius, oradius, period, star) ==
    [planet_radius |-> pradius, orbital_radius |-> oradius,
     orbital_period |-> period, star_brightness |-> star]

DefaultSetting == Setting(20, 10, 100, 100)

SliderSettings == {DefaultSetting, Setting(5, 1, 10, 80), Setting(100, 200, 1000, 120)}

(************************** simulate_transit ******************************)
\* np.linspace(start, stop, num): num samples, step (stop - start) / (num - 1),
\* the last sample set to stop itself
LinspaceOpenEnd(start, stop, num) ==
    [k \in 1..num |-> start + (k - 1) * ((stop - start) \div num)]

Linspace(start, stop, num) ==
    [k \in 1..num |-> IF k = num THEN stop
                      ELSE start + (k - 1) * ((stop - start) \div (num - 1))]

\* orbital_period * 0.1
transit_duration(period) == (period * 1) \div 10

transit_start_early(period) == (period * 3) \div 10

\* orbital_period * 0.4
transit_start(period) == (period * 4) \div 10

\* transit_start + transit_duration
transit_end(period) == transit_start(period) + transit_duration(period)

\* the boolean mask (time >= transit_start) & (time <= transit_end)
TransitMask(t, period) ==
    [k \in DOMAIN t |->
        t[k] >= transit_start(period) /\ t[k] <= transit_end(period)]

DipMultiplierClamped(radius) ==
    IF BrightUnit - radius * radius < 0 THEN 0 ELSE BrightUnit - radius * radius

DipMultiplierLinear(radius) == BrightUnit - 100 * radius

\* 1 - (planet_radius / 10) ** 2, in 1/BrightUnit
DipMultiplier(radius) == BrightUnit - radius * radius

\* b * m for a sample b and a multiplier m in 1/BrightUnit, that is
\* (b * m) \div BrightUnit, computed without leaving 32 bits
Times(b, m) ==
    (b \div BrightUnit) * m + ((b % BrightUnit) * m) \div BrightUnit

\* np.ones_like(a)
OnesLike(a) == [k \in DOMAIN a |-> 1]

\* a * c for an array a and a brightness c in hundredths
Scaled(a, c) == [k \in DOMAIN a |-> a[k] * c * BrightUnit]

\* a[mask] *= m
TimesWhere(a, mask, m) ==
    [k \in DOMAIN a |-> IF mask[k] THEN Times(a[k], m) ELSE a[k]]

\* the (time, brightness) pair simulate_transit returns
simulate_transit(radius, period, star) ==
    LET P == period * TimeUnit
        t == Linspace(0, P, NumSamples)
    IN  [time |-> t,
         brightness |-> TimesWhere(Scaled(OnesLike(t), star),
                                   TransitMask(t, P), DipMultiplier(radius))]

(******************************* catalog **********************************)
\* pl_name values of the catalog file
trappist1c == <<"t","r","a","p","p","i","s","t","-","1"," ","c">>
Kepler452b == <<"K","e","p","l","e","r","-","4","5","2"," ","b">>

\* the rows a catalog file is made of: a row whose semi-major axis is missing,
\* a complete row, and a row whose name is missing
CatalogRows ==
    { [pl_name |-> Some(trappist1c), pl_orbsmax |-> NaN],
      [pl_name |-> Some(Kepler452b), pl_orbsmax |-> Some(105)],
      [pl_name |-> NaN,              pl_orbsmax |-> Some(3)] }

\* DataFrame.empty
empty(table) == Len(table) = 0

\* the sequences of at most n distinct elements of S
RECURSIVE SeqsUpTo(_, _)
SeqsUpTo(S, n) ==
    IF n = 0 THEN {<<>>}
    ELSE LET shorter == SeqsUpTo(S, n - 1)
         IN  shorter \cup
             {Append(q, x) : <<q, x>> \in
                 {qx \in shorter \X S :
                     \A i \in 1..Len(qx[1]) : qx[1][i] # qx[2]}}

\* the tables pd.read_csv can return here: each planet is listed once, and
\* pl_name is a column of strings, so a table with rows has at least one name
\* (a column with no name at all is read as a column of floats, which has no
\* .str accessor)
Tables ==
    {t \in SeqsUpTo(CatalogRows, MaxRows) :
        empty(t) \/ \E i \in 1..Len(t) : ~isna(t[i].pl_name)}

\* the file is absent, present but not readable as a table, or holds a table
Absent == [state |-> "absent", table |-> EmptyDataFrame]
Unreadable == [state |-> "unreadable", table |-> EmptyDataFrame]
Holding(t) == [state |-> "ok", table |-> t]
FileStates == {Absent, Unreadable} \cup {Holding(t) : t \in Tables}

(****************************** load_data *********************************)
\* the body of load_data: [raised, value, notice], reading `file`
load_data_body_uncaught ==
    IF file.state = "ok"
    THEN [raised |-> FALSE, value |-> file.table, notice |-> FALSE]
    ELSE [raised |-> TRUE, value |-> EmptyDataFrame, notice |-> FALSE]

load_data_body ==
    CASE file.state = "absent" ->
            \* except FileNotFoundError: st.error(...); return pd.DataFrame()
            [raised |-> FALSE, value |-> EmptyDataFrame, notice |-> TRUE]
      [] file.state = "unreadable" ->
            \* any other exception of pd.read_csv leaves load_data
            [raised |-> TRUE, value |-> EmptyDataFrame, notice |-> FALSE]
      [] OTHER ->
            [raised |-> FALSE, value |-> file.table, notice |-> FALSE]

\* one execution of the body: the file is read once, a result that is
\* returned is stored, an exception stores nothing
load_data_miss ==
    LET r == load_data_body
    IN  [raised |-> r.raised, value |-> r.value, notice |-> r.notice,
         path |-> file.state,
         cache |-> IF r.raised THEN cache
                   ELSE [filled |-> TRUE, value |-> r.value, notice |-> r.notice],
         reads |-> reads + 1]

load_data_uncached == load_data_miss

\* @st.cache_data: a stored entry is returned (with its st elements replayed)
\* without running the body
load_data ==
    IF cache.filled
    THEN [raised |-> FALSE, value |-> cache.value, notice |-> cache.notice,
          path |-> "cached", cache |-> cache, reads |-> reads]
    ELSE load_data_miss

(**************************** catalog filter ******************************)
\* the characters of the names and of the options
Letters == {UpperCase[i] : i \in 1..Len(UpperCase)}
Alphabet ==
    Letters \cup {LowerCase[i] : i \in 1..Len(LowerCase)}
            \cup {"0","1","2","3","4","5","6","7","8","9","-"," "}

\* the lower-case form of each character: of an upper-case letter its
\* lower-case letter, of any other character itself
ToLower ==
    [c \in Alphabet |->
        IF c \in Letters
        THEN LowerCase[CHOOSE i \in 1..Len(UpperCase) : UpperCase[i] = c]
        ELSE c]

LowerIdentity(c) == c

\* case=False: the pattern is compiled with re.IGNORECASE, which compares
\* characters by their lower-case form
Lower(c) == ToLower[c]

\* whether the pattern matches the string at offset i (1-based)
RECURSIVE MatchAt(_, _, _, _)
MatchAt(str, pat, i, j) ==
    IF j > Len(pat) THEN TRUE
    ELSE IF i + j - 1 > Len(str) THEN FALSE
    ELSE IF Lower(str[i + j - 1]) # Lower(pat[j]) THEN FALSE
    ELSE MatchAt(str, pat, i, j + 1)

\* re.search: the first offset at which the pattern matches, if any
RECURSIVE Search(_, _, _)
Search(str, pat, i) ==
    IF i > Len(str) + 1 THEN FALSE
    ELSE IF MatchAt(str, pat, i, 1) THEN TRUE
    ELSE Search(str, pat, i + 1)

str_contains_na_true(value, pat) ==
    IF isna(value) THEN TRUE ELSE Search(ValueOf(value), pat, 1)

\* Series.str.contains(pat, na=False, case=False) on one value; the options
\* of the selectbox hold no regular-expression metacharacter
str_contains(value, pat) ==
    IF isna(value) THEN FALSE ELSE Search(ValueOf(value), pat, 1)

\* lines 44-50: system_data from df and selected_system
filter(table, selected) ==
    IF ~empty(table)
    THEN IF selected # All
         THEN LET keep(row) == str_contains(row.pl_name, selected)
              IN  SelectSeq(table, keep)
         ELSE table
    ELSE EmptyDataFrame

(******************************* orbit map ********************************)
StarName == <<"s","t","a","r">>
SamplePlanet == <<"s","a","m","p","l","e">>

\* a go.Scatter trace: x, y are `points` samples of the circle of `radius`
\* (mode "lines", angle = np.linspace(0, 2 * np.pi, 100)) or the one point
\* (radius, 0) (mode "markers")
Trace(mode, name, radius, points, size) ==
    [mode |-> mode, name |-> name, radius |-> radius, points |-> points,
     size |-> size]

\* line 56: x=[0], y=[0], marker size 20
StarTrace == Trace("markers", Some(StarName), 0, 1, 20)

\* lines 62-70 and 72-80: the orbit, then the marker at (radius, 0)
PlanetTracesOrbitOnly(name, radius, pradius) ==
    << Trace("lines", name, radius, NumSamples, 0) >>

PlanetTraces(name, radius, pradius) ==
    << Trace("lines", name, radius, NumSamples, 0),
       Trace("markers", name, radius, 1, pradius * 5) >>

RowRadiusAllOrNone(table, i, oradius) ==
    IF \A k \in 1..Len(table) : ~isna(table[k].pl_orbsmax)
    THEN ValueOf(table[i].pl_orbsmax) ELSE oradius

\* line 61: row["pl_orbsmax"] if not pd.isna(row["pl_orbsmax"]) else orbital_radius
RowRadius(table, i, oradius) ==
    IF ~isna(table[i].pl_orbsmax) THEN ValueOf(table[i].pl_orbsmax) ELSE oradius

\* line 60: for _, row in system_data.iterrows()
RECURSIVE RowTraces(_, _, _, _)
RowTraces(table, i, oradius, pradius) ==
    IF i > Len(table) THEN <<>>
    ELSE PlanetTraces(table[i].pl_name, RowRadius(table, i, oradius), pradius)
         \o RowTraces(table, i + 1, oradius, pradius)

\* lines 55-80
build_fig_map(table, oradius, pradius) ==
    << StarTrace >> \o
    (IF ~empty(table)
     THEN RowTraces(table, 1, oradius, pradius)
     ELSE PlanetTraces(Some(SamplePlanet), oradius, pradius))

\* lines 102-110: the scatter of system_data, only when df has rows
build_fig_stats(table, filtered) ==
    IF ~empty(table) THEN [shown |-> TRUE, rows |-> Len(filtered)] ELSE NoFigure

(******************************* the page *********************************)
Init ==
    /\ file \in FileStates
    /\ cache = NoCache
    /\ reads = 0
    /\ planet_radius = DefaultSetting.planet_radius
    /\ orbital_radius = DefaultSetting.orbital_radius
    /\ orbital_period = DefaultSetting.orbital_period
    /\ star_brightness = DefaultSetting.star_brightness
    /\ selected_system = All
    /\ df = EmptyDataFrame
    /\ system_data = EmptyDataFrame
    /\ fig_map = <<>>
    /\ fig_stats = NoFigure
    /\ time = <<>>
    /\ brightness = <<>>
    /\ notice = FALSE
    /\ load_path = "none"
    /\ status = "idle"

\* simulate_transit depends on its arguments alone: its results for the
\* slider settings, computed once
LightCurves ==
    [w \in SliderSettings |->
        simulate_transit(w.planet_radius, w.orbital_period, w.star_brightness)]

\* one run of the script, top to bottom, with the widgets' current values
Run(w, selected) ==
    /\ cache.filled \/ reads < MaxReads
    /\ planet_radius' = w.planet_radius
    /\ orbital_radius' = w.orbital_radius
    /\ orbital_period' = w.orbital_period
    /\ star_brightness' = w.star_brightness
    /\ selected_system' = selected
    /\ UNCHANGED file
    /\ \E loaded \in {load_data} :
        /\ cache' = loaded.cache
        /\ reads' = loaded.reads
        /\ load_path' = loaded.path
        /\ notice' = loaded.notice
        /\ IF loaded.raised
           THEN \* the exception ends the run at line 43
                /\ df' = EmptyDataFrame
                /\ system_data' = EmptyDataFrame
                /\ fig_map' = <<>>
                /\ fig_stats' = NoFigure
                /\ time' = <<>>
                /\ brightness' = <<>>
                /\ status' = "crashed"
           ELSE \E filtered \in {filter(loaded.value, selected)} :
                /\ df' = loaded.value
                /\ system_data' = filtered
                /\ fig_map' = build_fig_map(filtered, w.orbital_radius,
                                            w.planet_radius)
                /\ time' = LightCurves[w].time
                /\ brightness' = LightCurves[w].brightness
                /\ fig_stats' = build_fig_stats(loaded.value, filtered)
                /\ status' = "done"

\* between two runs the file is created, removed or rewritten
ChangeFile(f) ==
    /\ f # file
    /\ file' = f
    /\ UNCHANGED <<cache, reads, planet_radius, orbital_radius, orbital_period,
                   star_brightness, selected_system, df, system_data, fig_map,
                   fig_stats, time, brightness, notice, load_path, status>>

Next ==
    \/ \E w \in SliderSettings, selected \in SystemOptions : Run(w, selected)
    \/ \E f \in FileStates : ChangeFile(f)

Spec == Init /\ [][Next]_vars

(************************ simulate_transit alone **************************)
\* arguments of simulate_transit, inside and outside the widgets' ranges
TransitRadii == {0, 5, 20, 50, 100, 110, 150}
TransitPeriods == {10, 37, 100, 1000}
TransitBrightness == {80, 100, 120}

InitTransit ==
    /\ file = Absent
    /\ cache = NoCache
    /\ reads = 0
    /\ planet_radius \in TransitRadii
    /\ orbital_radius = DefaultSetting.orbital_radius
    /\ orbital_period \in TransitPeriods
    /\ star_brightness \in TransitBrightness
    /\ selected_system = All
    /\ df = EmptyDataFrame
    /\ system_data = EmptyDataFrame
    /\ fig_map = <<>>
    /\ fig_stats = NoFigure
    /\ time = <<>>
    /\ brightness = <<>>
    /\ notice = FALSE
    /\ load_path = "none"
    /\ status = "idle"

\* line 90: time, brightness = simulate_transit(...)
CallSimulateTransit ==
    LET curve == simulate_transit(planet_radius, orbital_period, star_brightness)
    IN  /\ status = "idle"
        /\ time' = curve.time
        /\ brightness' = curve.brightness
        /\ status' = "called"
        /\ UNCHANGED <<file, cache, reads, planet_radius, orbital_radius,
                       orbital_period, star_brightness, selected_system, df,
                       system_data, fig_map, fig_stats, notice, load_path>>

NextTransit == CallSimulateTransit

SpecTransit == InitTransit /\ [][NextTransit]_vars

(***************************************************************************)
(* simulate_transit (checked under SpecTransit)                            *)
(***************************************************************************)
\* the period in the unit of the time samples
PeriodInUnits == orbital_period * TimeUnit

\* 0.4 * orbital_period <= t <= 0.5 * orbital_period
InClaimedWindow(t) == 10 * t >= 4 * PeriodInUnits /\ 10 * t <= 5 * PeriodInUnits

\* C1: every sample whose time lies in [0.4 * P, 0.5 * P] equals
\* star_brightness * (1 - (planet_radius / 10)^2) and every other sample equals
\* star_brightness; with planet_radius 2.0, orbital_period 10.0 and
\* star_brightness 1.0 the samples of [4.0, 5.0] are 0.96 and the others 1.0.
C1_DipInWindowOnly ==
    status = "called" =>
        /\ \A k \in 1..Len(time) :
              brightness[k] =
                 IF InClaimedWindow(time[k])
                 THEN star_brightness * (100 * 100 - planet_radius * planet_radius)
                 ELSE star_brightness * (100 * 100)
        /\ (planet_radius = 20 /\ orbital_period = 100 /\ star_brightness = 100) =>
              \A k \in 1..Len(time) :
                 brightness[k] =
                    IF time[k] >= 40 * TimeUnit /\ time[k] <= 50 * TimeUnit
                    THEN 96 * BrightUnit ELSE 100 * BrightUnit

C1_Witness ==
    /\ status = "called"
    /\ planet_radius = 20 /\ orbital_period = 100 /\ star_brightness = 100
    /\ \E k \in 1..Len(time) : brightness[k] = 96 * BrightUnit
    /\ \E k \in 1..Len(time) : brightness[k] = 100 * BrightUnit

\* C2: the time sequence has exactly 100 evenly spaced samples, the first 0 and
\* the last orbital_period, and the brightness sequence has the same length.
C2_HundredEvenSamples ==
    status = "called" =>
        /\ Len(time) = 100
        /\ time[1] = 0
        /\ time[Len(time)] = PeriodInUnits
        /\ \A k \in 1..(Len(time) - 1) :
              /\ time[k + 1] > time[k]
              /\ time[k + 1] - time[k] = time[2] - time[1]
        /\ Len(brightness) = Len(time)

C2_Witness ==
    /\ status = "called"
    /\ orbital_period = 37
    /\ Len(time) = 100
    /\ time[100] = 37 * TimeUnit
    /\ time[2] = 370

\* C8: the multiplier is not clamped: with planet_radius = 10 every sample in
\* the window is 0, with planet_radius = 0 the samples in the window equal
\* those outside, with planet_radius > 10 the samples in the window are negative.
C8_DipUnclamped ==
    status = "called" =>
        /\ \E k \in 1..Len(time) : InClaimedWindow(time[k])
        /\ planet_radius = 100 =>
              \A k \in 1..Len(time) : InClaimedWindow(time[k]) => brightness[k] = 0
        /\ planet_radius = 0 =>
              \A k \in 1..Len(time) : brightness[k] = star_brightness * BrightUnit
        /\ planet_radius > 100 =>
              \A k \in 1..Len(time) : InClaimedWindow(time[k]) => brightness[k] < 0

C8_Witness ==
    /\ status = "called"
    /\ planet_radius = 150
    /\ \E k \in 1..Len(time) : brightness[k] < 0
    /\ \E k \in 1..Len(time) : brightness[k] = star_brightness * BrightUnit

\* C10: whatever the arguments, the dimmed samples are the ten samples of
\* 0-based indices 40..49 (1-based 41..50), and no sample lies on a boundary
\* of the window.
C10_SamplesFortyToFortyNine ==
    status = "called" =>
        /\ {k \in 1..Len(time) : TransitMask(time, PeriodInUnits)[k]} = 41..50
        /\ planet_radius # 0 =>
              {k \in 1..Len(time) : brightness[k] # star_brightness * BrightUnit}
                 = 41..50
        /\ \A k \in 1..Len(time) :
              10 * time[k] # 4 * PeriodInUnits /\ 10 * time[k] # 5 * PeriodInUnits

C10_Witness ==
    /\ status = "called"
    /\ orbital_period = 1000 /\ planet_radius = 5
    /\ brightness[40] # brightness[41]
    /\ brightness[50] # brightness[51]
    /\ brightness[41] = brightness[50]

(***************************************************************************)
(* the catalog filter (checked under Spec)                                 *)
(***************************************************************************)
\* two characters that are equal, or the two cases of one letter
SameLetter(a, b) ==
    \/ a = b
    \/ \E n \in 1..Len(UpperCase) : {a, b} = {UpperCase[n], LowerCase[n]}

\* the string holds the substring, letters compared without their case
HoldsSubstring(str, sub) ==
    \E i \in 1..(Len(str) - Len(sub) + 1) :
        \A j \in 1..Len(sub) : SameLetter(str[i + j - 1], sub[j])

\* the row has a name and the name holds the selected substring
RowMatches(row) ==
    ~isna(row.pl_name) /\ HoldsSubstring(ValueOf(row.pl_name), selected_system)

DemoModeCompleted ==
    /\ status = "done"
    /\ notice
    /\ empty(df) /\ empty(system_data)
    /\ Len(fig_map) > 0
    /\ Len(time) = NumSamples /\ Len(brightness) = NumSamples

\* C5 as stated: whenever the file is absent or unreadable, load_data catches
\* the failure, shows the notice and returns an empty table, and the run
\* completes every later step.
C5_AnyLoadFailureCaught ==
    load_path \in {"absent", "unreadable"} => DemoModeCompleted

\* C5, amended: whenever the file is absent (FileNotFoundError), load_data
\* catches the failure, shows the notice and returns an empty table, and the
\* run completes every later step.
C5_MissingFileCaught ==
    load_path = "absent" => DemoModeCompleted

C5_Witness ==
    /\ load_path = "absent"
    /\ status = "done"
    /\ notice
    /\ empty(df)
    /\ Len(fig_map) = 3
    /\ Len(brightness) = NumSamples

\* C9 as stated: across the runs of one process the file is read at most once.
C9_ReadAtMostOnce == reads <= 1

\* C9, amended: once a call of load_data has returned (the table read, or the
\* empty table of a missing file), the file is never read again, the stored
\* table never changes, and every later run works on it, whatever happens to
\* the file.
C9_LoadedOnce ==
    /\ [](status = "done" => cache.filled /\ df = cache.value)
    /\ [][cache.filled => cache' = cache /\ reads' = reads]_vars

C9_Witness ==
    /\ status = "done"
    /\ load_path = "cached"
    /\ cache.notice /\ empty(cache.value)
    /\ file.state = "ok" /\ ~empty(file.table)
    /\ empty(df)
    /\ reads = 1

(***************************************************************************)
(* the orbit map (checked under Spec)                                      *)
(***************************************************************************)
IsOrbit(trace) == trace.mode = "lines"
IsMarker(trace) == trace.mode = "markers"

\* the orbits of the figure, in the order drawn
Orbits == SelectSeq(fig_map, IsOrbit)

\* C6: each row of the filtered catalog gets an orbit whose radius is the
\* row's pl_orbsmax when it is not missing and orbital_radius otherwise, row
\* by row; with an empty catalog exactly one orbit, of radius orbital_radius,
\* is drawn.
C6_RadiusPerRow ==
    status = "done" =>
        /\ ~empty(system_data) =>
              /\ Len(Orbits) = Len(system_data)
              /\ \A i \in 1..Len(system_data) :
                    Orbits[i].radius =
                       IF isna(system_data[i].pl_orbsmax) THEN orbital_radius
                       ELSE ValueOf(system_data[i].pl_orbsmax)
        /\ empty(df) =>
              /\ Len(Orbits) = 1
              /\ Orbits[1].radius = orbital_radius

C6_Witness ==
    /\ status = "done"
    /\ Len(system_data) = 2
    /\ isna(system_data[1].pl_orbsmax) /\ ~isna(system_data[2].pl_orbsmax)
    /\ Orbits[1].radius = orbital_radius
    /\ Orbits[2].radius = ValueOf(system_data[2].pl_orbsmax)
    /\ Orbits[1].radius # Orbits[2].radius

\* the number of planets drawn: the rows of system_data, or the sample planet
PlanetsDrawn == IF empty(system_data) THEN 1 ELSE Len(system_data)

\* C7 as stated: the figure holds N + 1 traces for N planets drawn.
C7_NPlusOneTraces ==
    status = "done" => Len(fig_map) = PlanetsDrawn + 1

\* C7, amended: on every run in which load_data returns, the figure holds
\* 2 * N + 1 traces for N planets drawn: the star, a single point at the
\* origin, then for each planet its orbit and its marker.
C7_TwoNPlusOneTraces ==
    status = "done" =>
        /\ Len(fig_map) = 2 * PlanetsDrawn + 1
        /\ IsMarker(fig_map[1]) /\ fig_map[1].points = 1 /\ fig_map[1].radius = 0
        /\ \A n \in 1..PlanetsDrawn :
              /\ IsOrbit(fig_map[2 * n])
              /\ IsMarker(fig_map[2 * n + 1])
              /\ fig_map[2 * n + 1].points = 1
              /\ fig_map[2 * n + 1].radius = fig_map[2 * n].radius

C7_Witness ==
    /\ status = "done"
    /\ Len(system_data) = 2
    /\ Len(fig_map) = 5

====
